---- MODULE Spec2Model ----
(***************************************************************************)
(* limail: a webhook relay that answers inbound-email notifications with   *)
(* an automated reply (at most once per sender and cooldown window) or     *)
(* forwards them to a chat channel.  Model of src/src/main.rs.             *)
(*                                                                         *)
(* Time is counted in ticks; TicksPerMinute ticks make one minute, so that *)
(* the truncation of chrono's Duration::num_minutes() is visible.          *)
(***************************************************************************)
EXTENDS Integers, Sequences, FiniteSets, TLC

(* ------------------------------ bounds -------------------------------- *)

\* the clock stops advancing at MaxTime ticks
MaxTime == 4
\* resolution of the clock
TicksPerMinute == 2
\* TIME_BETWEEN_RESPONSES_MINUTES is drawn from -1 .. MaxThreshold
MaxThreshold == 1
\* number of inbound requests handled (concurrently) in one behaviour
NumReq == 2

(* ------------------------------ values -------------------------------- *)

AddrSeq == <<"a@example.com", "b@example.com", "c@example.com">>
Addr == {AddrSeq[i] : i \in 1..Len(AddrSeq)}

\* main.rs parses any i64: negative values are accepted
Thresholds == (0 - 1)..MaxThreshold

VARIABLES
    now,                      \* Utc::now(), in ticks
    time_between_responses,   \* LastResponseLog.time_between_responses.0
    last_response_date,       \* LastResponseLog.last_response_date: address -> time
    last_call,                \* the latest direct call on the log (SpecLog)
    last_logged,              \* address -> time of its latest completed log_send
    pc,                       \* request -> the operation it performs next
    req,                      \* request -> route, path parameter and received email
    loc,                      \* request -> the handler's local variables
    mail_calls,               \* request -> the mailgun.send_email calls it made
    slack_calls,              \* request -> the slack_client.send_message calls it made
    result,                   \* request -> what the handler returned
    response,                 \* request -> what recover_error made of it
    unified                   \* a string and unify_new_lines applied to it, repeatedly

clock_vars == <<now, time_between_responses>>
log_vars == <<last_response_date, last_logged>>
req_vars == <<pc, req, loc, mail_calls, slack_calls, result, response>>
call_vars == <<last_call, unified>>
vars == <<now, time_between_responses, last_response_date, last_call, last_logged,
          pc, req, loc, mail_calls, slack_calls, result, response, unified>>

Req == 1..NumReq

(* ------------------------- LastResponseLog ---------------------------- *)


\* a slip: the minutes are rounded to the nearest instead of truncated
num_minutes_rounded(d) == (2 * d + TicksPerMinute) \div (2 * TicksPerMinute)

\* chrono::Duration::num_minutes(): whole minutes, truncated towards zero
num_minutes(d) == IF d >= 0 THEN d \div TicksPerMinute
                  ELSE 0 - ((0 - d) \div TicksPerMinute)

\* a slip: >= in place of >
is_too_old_ge(dt, t) == num_minutes(t - dt) >= time_between_responses

\* is_too_old, with Utc::now() = t
is_too_old(dt, t) == num_minutes(t - dt) > time_between_responses

\* a slip: Some(v) => !self.is_too_old(&v)
can_send_on_negated(map, addr, t) ==
    IF addr \in DOMAIN map THEN ~is_too_old(map[addr], t) ELSE TRUE

\* CHashMap::get(email): Some(v) when the key is present
can_send_on(map, addr, t) ==
    IF addr \in DOMAIN map THEN is_too_old(map[addr], t) ELSE TRUE

\* can_send on the shared map
can_send(addr) == can_send_on(last_response_date, addr, now)

\* CHashMap::len()
len(map) == Cardinality(DOMAIN map)

EmptyMap == [a \in {} |-> 0]

\* a slip: retain(|_, v| self.is_too_old(v)) keeps the stale entries
retain_bucket_inverted(map, addr, t) ==
    IF addr \in DOMAIN map /\ ~is_too_old(map[addr], t)
    THEN [a \in DOMAIN map \ {addr} |-> map[a]]
    ELSE map

\* CHashMap::retain(|_, v| !is_too_old(v)) on the bucket of one key, at time t
retain_bucket(map, addr, t) ==
    IF addr \in DOMAIN map /\ is_too_old(map[addr], t)
    THEN [a \in DOMAIN map \ {addr} |-> map[a]]
    ELSE map

RECURSIVE retain_from(_, _, _)
retain_from(map, i, t) ==
    IF i > Len(AddrSeq) THEN map
    ELSE retain_from(retain_bucket(map, AddrSeq[i], t), i + 1, t)

\* retain run over every bucket with no concurrent caller, at time t
retain(map, t) == retain_from(map, 1, t)

\* CHashMap::insert(email, Utc::now())
insert(map, addr, t) ==
    [a \in DOMAIN map \cup {addr} |-> IF a = addr THEN t ELSE map[a]]

\* log_send without concurrent callers: clear_old(), then insert
log_send_on(map, addr, t) == insert(retain(map, t), addr, t)


(* --------------------------- unify_new_lines --------------------------- *)

\* a string is a sequence of characters; NL is the newline, SP and TAB are
\* whitespace (str::trim), every other character is not
NL == "\n"
SP == " "
TAB == "\t"
Whitespace == {SP, TAB}

\* value.split("\n"): the pieces between the newlines, at least one
RECURSIVE split(_)
split(s) ==
    IF s = <<>> THEN << <<>> >>
    ELSE LET rest == split(Tail(s))
         IN  IF Head(s) = NL THEN << <<>> >> \o rest
             ELSE << <<Head(s)>> \o Head(rest) >> \o Tail(rest)

RECURSIVE trim_start(_)
trim_start(s) ==
    IF s # <<>> /\ Head(s) \in Whitespace THEN trim_start(Tail(s)) ELSE s

RECURSIVE trim_end(_)
trim_end(s) ==
    IF s # <<>> /\ s[Len(s)] \in Whitespace
    THEN trim_end(SubSeq(s, 1, Len(s) - 1)) ELSE s

\* str::trim
trim(s) == trim_end(trim_start(s))

\* .map(|s| s.trim())
RECURSIVE map_trim(_)
map_trim(lines) ==
    IF lines = <<>> THEN <<>> ELSE <<trim(Head(lines))>> \o map_trim(Tail(lines))

\* a slip: count <= 2
RECURSIVE filter_blank_two(_, _)
filter_blank_two(lines, count) ==
    IF lines = <<>> THEN <<>>
    ELSE LET l == Head(lines)
             c == IF Len(l) = 0 THEN count + 1 ELSE 0
         IN  (IF Len(l) > 0 \/ c <= 2 THEN <<l>> ELSE <<>>)
                 \o filter_blank_two(Tail(lines), c)

\* the filter closure, with its captured counter
RECURSIVE filter_blank(_, _)
filter_blank(lines, count) ==
    IF lines = <<>> THEN <<>>
    ELSE LET l == Head(lines)
             c == IF Len(l) = 0 THEN count + 1 ELSE 0
         IN  (IF Len(l) > 0 \/ c <= 1 THEN <<l>> ELSE <<>>)
                 \o filter_blank(Tail(lines), c)

\* .join("\n")
RECURSIVE join(_)
join(lines) ==
    IF lines = <<>> THEN <<>>
    ELSE IF Len(lines) = 1 THEN Head(lines)
    ELSE Head(lines) \o <<NL>> \o join(Tail(lines))

\* a slip: the filter runs before the trim
unify_new_lines_filter_first(value) ==
    join(map_trim(filter_blank(split(value), 0)))

unify_new_lines(value) == join(filter_blank(map_trim(split(value)), 0))


(* ------------------- received emails and collaborators ----------------- *)

\* Mailgun, Slack and MailgunEmailReceived live in mailgun.rs and slack.rs

ApiKey == "key"

\* the keyed hash of timestamp and token
hmac(key, timestamp, token) == <<"hmac-sha256", key, timestamp, token>>

MailgunErr(variant, text) ==
    [type |-> "MailgunError", variant |-> variant, text |-> text]

Ok(v) == [ok |-> TRUE, value |-> v]
Err(e) == [ok |-> FALSE, error |-> e]

\* Mailgun::verify_hmac
verify_hmac(email) ==
    IF email.signature = hmac(ApiKey, email.timestamp, email.token)
    THEN Ok("verified")
    ELSE Err(MailgunErr("HmacError", "signature mismatch"))

\* MailgunEmailReceived::get_message_id: the Message-Id of the raw headers
get_message_id(email) ==
    LET ids == {i \in 1..Len(email.message_headers) :
                    email.message_headers[i][1] = "Message-Id"}
    IN  IF ids = {} THEN Err(MailgunErr("MailgunError", "no message id found"))
        ELSE Ok(email.message_headers[CHOOSE i \in ids : \A j \in ids : i <= j][2])

\* what Mailgun::send_email can return
SendEmailResults ==
    {Ok("queued"),
     Err(MailgunErr("MailgunError", "provider refused")),
     Err(MailgunErr("JsonError", "unparseable provider response"))}

\* what Slack::send_message can return: a response with its ts, or an error
SlackTs == {"1111.01", "2222.02"}
SlackErrors == {[type |-> "SlackError", variant |-> "SlackError", text |-> t] :
                    t \in {"channel_not_found", "ratelimited"}}
SendMessageResults ==
    {Ok([ts |-> ts]) : ts \in SlackTs} \cup {Err(e) : e \in SlackErrors}

SenderOf(from) == "bounce+" \o from

Bodies == {<<"Line1", NL, NL, NL, NL, "Line2">>,
           <<SP, "Hi", SP, NL, SP, NL, TAB, NL, "Bye", NL>>}

Headers == {<< <<"Received", "by mx">>, <<"Message-Id", "<m1@mail>">> >>,
            << <<"Received", "by mx">> >>}

Email(from, body, signature, headers) ==
    [sender |-> SenderOf(from), from |-> from, subject |-> "Hello",
     body_plain |-> body, timestamp |-> 1, token |-> "tok",
     signature |-> signature, message_headers |-> headers]

\* the From addresses of the requests
FromAddr == {AddrSeq[1], AddrSeq[2]}

Signatures == {hmac(ApiKey, 1, "tok"), hmac("other", 1, "tok")}

\* the requests POSTed to /emails/responder/{template}
ResponderRequests ==
    {[route |-> "responder", param |-> "no-reply",
      email |-> Email(f, <<"Hi">>, sg, h)] :
        f \in FromAddr, sg \in Signatures, h \in Headers}

\* the requests POSTed to /emails/forward/slack/{channel_id}
ForwardRequests ==
    {[route |-> "forward", param |-> "C01",
      email |-> Email(AddrSeq[1], b, sg, CHOOSE h \in Headers : Len(h) = 2)] :
        b \in Bodies, sg \in Signatures}

(* ------------------------- multipart_to_mailgun ------------------------ *)

None == [some |-> FALSE]
Some(v) == [some |-> TRUE, val |-> v]

DigitSeq == <<"0", "1", "2", "3", "4", "5", "6", "7", "8", "9">>
Digits == {DigitSeq[i] : i \in 1..Len(DigitSeq)}
DigitVal(c) == (CHOOSE i \in 1..Len(DigitSeq) : DigitSeq[i] = c) - 1

RECURSIVE Decimal(_)
Decimal(ds) ==
    IF ds = <<>> THEN 0
    ELSE Decimal(SubSeq(ds, 1, Len(ds) - 1)) * Len(DigitSeq) + DigitVal(ds[Len(ds)])

\* str::parse::<i64>().ok(): an optional sign and one digit or more
parse_i64(s) ==
    LET signed == s # <<>> /\ s[1] \in {"+", "-"}
        ds == IF signed THEN Tail(s) ELSE s
    IN  IF ds # <<>> /\ \A i \in 1..Len(ds) : ds[i] \in Digits
        THEN Some(IF signed /\ s[1] = "-" THEN 0 - Decimal(ds) ELSE Decimal(ds))
        ELSE None

\* a part of the form: its name and its bytes, or an error of the stream
OkPart(name, text) == [ok |-> TRUE, name |-> name, utf8 |-> TRUE, text |-> text]
BadBytes(name) == [ok |-> TRUE, name |-> name, utf8 |-> FALSE, text |-> <<>>]
PartError == [ok |-> FALSE]

\* part_to_string: the part's bytes as a string, None when they are not UTF-8
part_to_string(part) == IF part.utf8 THEN Some(part.text) ELSE None

\* the eight let mut .. = None
NoFields ==
    [sender |-> None, from |-> None, subject |-> None, body_plain |-> None,
     timestamp |-> None, token |-> None, signature |-> None,
     message_headers |-> None]

FieldSeq == <<"sender", "from", "subject", "body_plain", "timestamp", "token",
              "signature", "message_headers">>

\* a slip: a timestamp that does not parse keeps the value captured before
capture_keep_timestamp(acc, part) ==
    IF ~part.ok THEN acc
    ELSE LET val == part_to_string(part)
         IN  CASE part.name = "sender" -> [acc EXCEPT !.sender = val]
               [] part.name = "from" -> [acc EXCEPT !.from = val]
               [] part.name = "subject" -> [acc EXCEPT !.subject = val]
               [] part.name = "body-plain" -> [acc EXCEPT !.body_plain = val]
               [] part.name = "timestamp" /\ val.some /\ parse_i64(val.val).some
                      -> [acc EXCEPT !.timestamp = parse_i64(val.val)]
               [] part.name = "token" -> [acc EXCEPT !.token = val]
               [] part.name = "signature" -> [acc EXCEPT !.signature = val]
               [] part.name = "message-headers"
                      -> [acc EXCEPT !.message_headers = val]
               [] OTHER -> acc

\* the closure of for_each: one part assigned to the field of its name
capture(acc, part) ==
    IF ~part.ok THEN acc
    ELSE LET val == part_to_string(part)
         IN  CASE part.name = "sender" -> [acc EXCEPT !.sender = val]
               [] part.name = "from" -> [acc EXCEPT !.from = val]
               [] part.name = "subject" -> [acc EXCEPT !.subject = val]
               [] part.name = "body-plain" -> [acc EXCEPT !.body_plain = val]
               [] part.name = "timestamp" /\ val.some
                      -> [acc EXCEPT !.timestamp = parse_i64(val.val)]
               [] part.name = "token" -> [acc EXCEPT !.token = val]
               [] part.name = "signature" -> [acc EXCEPT !.signature = val]
               [] part.name = "message-headers"
                      -> [acc EXCEPT !.message_headers = val]
               [] OTHER -> acc

RECURSIVE for_each(_, _)
for_each(acc, form_data) ==
    IF form_data = <<>> THEN acc
    ELSE for_each(capture(acc, Head(form_data)), Tail(form_data))

MissingFields ==
    [type |-> "MultipartError", variant |-> "MissingFields",
     text |-> "MultipartError::MissingFields"]

\* multipart_to_mailgun: the record when all eight are Some, MissingFields else
multipart_to_mailgun(form_data) ==
    LET f == for_each(NoFields, form_data)
    IN  IF \A i \in 1..Len(FieldSeq) : f[FieldSeq[i]].some
        THEN Ok([sender |-> f.sender.val, from |-> f.from.val,
                 subject |-> f.subject.val, body_plain |-> f.body_plain.val,
                 timestamp |-> f.timestamp.val, token |-> f.token.val,
                 signature |-> f.signature.val,
                 message_headers |-> f.message_headers.val])
        ELSE Err(MissingFields)

\* the parts of a form that carries email
PartsOf(email) ==
    <<OkPart("sender", email.sender), OkPart("from", email.from),
      OkPart("subject", email.subject), OkPart("body-plain", email.body_plain),
      OkPart("timestamp", <<"1">>), OkPart("token", email.token),
      OkPart("signature", email.signature),
      OkPart("message-headers", email.message_headers)>>

Without(parts, i) == SubSeq(parts, 1, i - 1) \o SubSeq(parts, i + 1, Len(parts))

MultipartEmail(body) ==
    Email(AddrSeq[1], body, hmac(ApiKey, 1, "tok"), CHOOSE h \in Headers : Len(h) = 2)

\* forms of the email e: complete, short of one field, and with a field that
\* is sent but has no usable value
FormsOf(e) ==
    <<PartsOf(e)>>
    \o [i \in 1..Len(FieldSeq) |-> Without(PartsOf(e), i)]
    \o <<Without(PartsOf(e), 5) \o <<OkPart("timestamp", <<"1", "x">>)>>,
         PartsOf(e) \o <<OkPart("timestamp", <<>>)>>,
         Without(PartsOf(e), 3) \o <<BadBytes("subject")>>,
         PartsOf(e) \o <<BadBytes("token")>>,
         <<PartError>>>>

\* the bodies of the multipart requests, by number; the complete forward
\* form lies among parts that do not count
ResponderForms == FormsOf(MultipartEmail(<<"Hi">>))
ForwardForms ==
    <<<<OkPart("attachment-count", "0"), PartError>>
          \o PartsOf(MultipartEmail(<<"Line1", NL, NL, NL, NL, "Line2">>))
          \o <<BadBytes("timestamp"), BadBytes("recipient")>>,
      <<OkPart("sender", "x@example.com")>>>>

\* the multipart requests POSTed to /emails/responder/{template}
ResponderMultipartRequests ==
    {[route |-> "responder_multipart", param |-> "no-reply", form |-> k] :
        k \in 1..Len(ResponderForms)}

\* the multipart requests POSTed to /emails/forward/slack/{channel_id}
ForwardMultipartRequests ==
    {[route |-> "forward_multipart", param |-> "C01", form |-> k] :
        k \in 1..Len(ForwardForms)}

\* the FormData of a multipart request
form_data(q) ==
    IF q.route = "responder_multipart" THEN ResponderForms[q.form]
    ELSE ForwardForms[q.form]

Requests ==
    ResponderRequests \cup ForwardRequests
        \cup ResponderMultipartRequests \cup ForwardMultipartRequests

NoRequest == [route |-> "none"]
NoResult == [ok |-> FALSE, error |-> [type |-> "none"]]
NoResponse == [kind |-> "none"]

(* ----------------------------- recover_error --------------------------- *)

BAD_REQUEST == 400
INTERNAL_SERVER_ERROR == 500

\* a slip: JsonError answered as a server error
recover_error_json_500(err) ==
    IF err.type = "MailgunError"
    THEN LET code == CASE err.variant = "JsonError" -> INTERNAL_SERVER_ERROR
                       [] err.variant = "HmacError" -> BAD_REQUEST
                       [] err.variant = "MailgunError" -> INTERNAL_SERVER_ERROR
         IN  [kind |-> "reply", status |-> code,
              json |-> [code |-> code, message |-> err.text]]
    ELSE [kind |-> "rejection", rejection |-> err]

\* recover_error: Ok(reply with status and JSON body) for a MailgunError cause,
\* Err(err) for every other rejection
recover_error(err) ==
    IF err.type = "MailgunError"
    THEN LET code == CASE err.variant = "JsonError" -> BAD_REQUEST
                       [] err.variant = "HmacError" -> BAD_REQUEST
                       [] err.variant = "MailgunError" -> INTERNAL_SERVER_ERROR
         IN  [kind |-> "reply", status |-> code,
              json |-> [code |-> code, message |-> err.text]]
    ELSE [kind |-> "rejection", rejection |-> err]

\* the filter chain: and_then(handler).recover(recover_error)
respond(res) ==
    IF res.ok THEN [kind |-> "handler reply", body |-> res.value]
    ELSE recover_error(res.error)


(* ------------------------------ requests ------------------------------- *)

Unset == 0 - 1

\* message_id, the outcome of can_send, clear_old's orig_size and the bucket
\* retain works on (both dropped when clear_old returns), and the time
\* log_send has inserted
NoLocals == [message_id |-> "", can |-> FALSE, orig_size |-> Unset, cursor |-> 0,
             logged_at |-> Unset]

\* main(): an empty CHashMap, the threshold parsed from the environment
Init ==
    /\ now = 0
    /\ time_between_responses \in Thresholds
    /\ last_response_date = EmptyMap
    /\ last_call = [op |-> "none"]
    /\ last_logged = EmptyMap
    /\ pc = [r \in Req |-> "idle"]
    /\ req = [r \in Req |-> NoRequest]
    /\ loc = [r \in Req |-> NoLocals]
    /\ mail_calls = [r \in Req |-> <<>>]
    /\ slack_calls = [r \in Req |-> <<>>]
    /\ result = [r \in Req |-> NoResult]
    /\ response = [r \in Req |-> NoResponse]
    /\ unified = <<>>

\* the clock advances (it is taken never to run backwards)
Tick ==
    /\ now < MaxTime
    /\ now' = now + 1
    /\ UNCHANGED <<time_between_responses, log_vars, call_vars>>
    /\ UNCHANGED req_vars

\* the handler returns res; the route's recover filter makes the response
Return(r, res) ==
    /\ pc' = [pc EXCEPT ![r] = "done"]
    /\ result' = [result EXCEPT ![r] = res]
    /\ response' = [response EXCEPT ![r] = respond(res)]

Goto(r, label) ==
    /\ pc' = [pc EXCEPT ![r] = label]
    /\ UNCHANGED <<result, response>>

\* warp hands a request to its route's handler; requests are taken in order
Receive(r) ==
    /\ pc[r] = "idle"
    /\ \A q \in Req : q < r => pc[q] # "idle"
    /\ \E q \in Requests :
          /\ req' = [req EXCEPT ![r] = q]
          /\ Goto(r, IF "form" \in DOMAIN q THEN "multipart_to_mailgun"
                     ELSE "verify_hmac")
    /\ UNCHANGED <<clock_vars, log_vars, call_vars, loc, mail_calls, slack_calls>>

(* ----------------------- send_no_reply_template ------------------------ *)

\* a slip: the ? after verify_hmac is missing
Responder_verify_hmac_unchecked(r) ==
    /\ pc[r] = "verify_hmac" /\ req[r].route = "responder"
    /\ Goto(r, "get_message_id")
    /\ UNCHANGED <<clock_vars, log_vars, call_vars, req, loc, mail_calls, slack_calls>>

\* mailgun.verify_hmac(&email)?
Responder_verify_hmac(r) ==
    /\ pc[r] = "verify_hmac" /\ req[r].route = "responder"
    /\ LET v == verify_hmac(req[r].email)
       IN  IF v.ok THEN Goto(r, "get_message_id") ELSE Return(r, Err(v.error))
    /\ UNCHANGED <<clock_vars, log_vars, call_vars, req, loc, mail_calls, slack_calls>>

\* a slip: the ? after get_message_id is missing
Responder_get_message_id_unchecked(r) ==
    /\ pc[r] = "get_message_id"
    /\ LET m == get_message_id(req[r].email)
       IN  /\ loc' = [loc EXCEPT ![r].message_id = IF m.ok THEN m.value ELSE ""]
           /\ Goto(r, "can_send")
    /\ UNCHANGED <<clock_vars, log_vars, call_vars, req, mail_calls, slack_calls>>

\* let message_id = email.get_message_id()?
Responder_get_message_id(r) ==
    /\ pc[r] = "get_message_id"
    /\ LET m == get_message_id(req[r].email)
       IN  IF m.ok
           THEN /\ loc' = [loc EXCEPT ![r].message_id = m.value]
                /\ Goto(r, "can_send")
           ELSE /\ UNCHANGED loc
                /\ Return(r, Err(m.error))
    /\ UNCHANGED <<clock_vars, log_vars, call_vars, req, mail_calls, slack_calls>>

\* a slip: can_send takes the stale entry it finds out of the map
Responder_can_send_evict(r) ==
    /\ pc[r] = "can_send"
    /\ LET c == can_send(req[r].email.from)
       IN  /\ loc' = [loc EXCEPT ![r].can = c]
           /\ last_response_date' =
                  retain_bucket(last_response_date, req[r].email.from, now)
           /\ IF c THEN Goto(r, "clear_old")
              ELSE Return(r, Ok("Message Processed"))
    /\ UNCHANGED <<clock_vars, last_logged, call_vars, req, mail_calls, slack_calls>>

\* a slip: the answer of can_send is not looked at
Responder_can_send_ignored(r) ==
    /\ pc[r] = "can_send"
    /\ LET c == can_send(req[r].email.from)
       IN  /\ loc' = [loc EXCEPT ![r].can = TRUE]
           /\ Goto(r, "clear_old")
    /\ UNCHANGED <<clock_vars, log_vars, call_vars, req, mail_calls, slack_calls>>

\* if last_response_log.can_send(&email.from) { .. } else { info!(..) } Ok(..)
Responder_can_send(r) ==
    /\ pc[r] = "can_send"
    /\ LET c == can_send(req[r].email.from)
       IN  /\ loc' = [loc EXCEPT ![r].can = c]
           /\ IF c THEN Goto(r, "clear_old")
              ELSE Return(r, Ok("Message Processed"))
    /\ UNCHANGED <<clock_vars, log_vars, call_vars, req, mail_calls, slack_calls>>

\* log_send -> clear_old: let orig_size = self.last_response_date.len()
ClearOld_orig_size(r) ==
    /\ pc[r] = "clear_old"
    /\ loc' = [loc EXCEPT ![r].orig_size = len(last_response_date), ![r].cursor = 1]
    /\ Goto(r, "retain")
    /\ UNCHANGED <<clock_vars, log_vars, call_vars, req, mail_calls, slack_calls>>

\* a slip: the sweep drops the entry whatever its age
ClearOld_retain_clear(r) ==
    /\ pc[r] = "retain"
    /\ last_response_date' =
           [a \in DOMAIN last_response_date \ {AddrSeq[loc[r].cursor]} |->
                last_response_date[a]]
    /\ loc' = [loc EXCEPT ![r].cursor = @ + 1]
    /\ Goto(r, IF loc[r].cursor = Len(AddrSeq) THEN "new_size" ELSE "retain")
    /\ UNCHANGED <<clock_vars, last_logged, call_vars, req, mail_calls, slack_calls>>

\* clear_old: retain locks and filters one bucket after the other
ClearOld_retain(r) ==
    /\ pc[r] = "retain"
    /\ last_response_date' =
           retain_bucket(last_response_date, AddrSeq[loc[r].cursor], now)
    /\ loc' = [loc EXCEPT ![r].cursor = @ + 1]
    /\ Goto(r, IF loc[r].cursor = Len(AddrSeq) THEN "new_size" ELSE "retain")
    /\ UNCHANGED <<clock_vars, last_logged, call_vars, req, mail_calls, slack_calls>>

\* clear_old: let new_size = ..len(); info!(.., orig_size-new_size).  The usize
\* subtraction panics in a build with overflow checks when new_size is larger.
ClearOld_new_size(r) ==
    /\ pc[r] = "new_size"
    /\ loc' = [loc EXCEPT ![r].orig_size = Unset, ![r].cursor = 0]
    /\ \/ Goto(r, "insert")
       \/ /\ loc[r].orig_size < len(last_response_date)
          /\ Goto(r, "panicked")
    /\ UNCHANGED <<clock_vars, log_vars, call_vars, req, mail_calls, slack_calls>>

\* log_send: self.last_response_date.insert(email.clone(), Utc::now())
LogSend_insert(r) ==
    /\ pc[r] = "insert"
    /\ last_response_date' = insert(last_response_date, req[r].email.from, now)
    /\ loc' = [loc EXCEPT ![r].logged_at = now]
    /\ Goto(r, "send_email")
    /\ UNCHANGED <<clock_vars, last_logged, call_vars, req, mail_calls, slack_calls>>

\* a slip: the reply goes to the envelope sender
reply_template_to_sender(template, email, message_id) ==
    [recipient |-> email.sender,
     subject |-> "Re: " \o email.subject,
     template |-> template,
     in_reply_to |-> message_id,
     references |-> message_id]

\* the EmailTemplate send_no_reply_template builds
reply_template(template, email, message_id) ==
    [recipient |-> email.from,
     subject |-> "Re: " \o email.subject,
     template |-> template,
     in_reply_to |-> message_id,
     references |-> message_id]

\* a slip: a send_email that failed is tried once more
Responder_send_email_retry(r) ==
    /\ pc[r] = "send_email"
    /\ \E res \in SendEmailResults :
          /\ mail_calls' = [mail_calls EXCEPT ![r] = Append(@,
                 [template |-> reply_template(req[r].param, req[r].email,
                                              loc[r].message_id),
                  at |-> now, result |-> res])]
          /\ IF res.ok THEN Return(r, Ok("Message Processed"))
             ELSE IF mail_calls[r] = <<>> THEN Goto(r, "send_email")
             ELSE Return(r, Err(res.error))
    /\ UNCHANGED <<clock_vars, log_vars, call_vars, req, loc, slack_calls>>

\* a slip: a send_email that failed takes the entry out of the log again
Responder_send_email_undo(r) ==
    /\ pc[r] = "send_email"
    /\ \E res \in SendEmailResults :
          /\ mail_calls' = [mail_calls EXCEPT ![r] = Append(@,
                 [template |-> reply_template(req[r].param, req[r].email,
                                              loc[r].message_id),
                  at |-> now, result |-> res])]
          /\ IF res.ok
             THEN /\ Return(r, Ok("Message Processed"))
                  /\ UNCHANGED last_response_date
             ELSE /\ Return(r, Err(res.error))
                  /\ last_response_date' =
                         [a \in DOMAIN last_response_date \ {req[r].email.from} |->
                              last_response_date[a]]
    /\ UNCHANGED <<clock_vars, last_logged, call_vars, req, loc, slack_calls>>

\* mailgun.send_email(&EmailTemplate {..})?; Ok("Message Processed")
Responder_send_email(r) ==
    /\ pc[r] = "send_email"
    /\ \E res \in SendEmailResults :
          /\ mail_calls' = [mail_calls EXCEPT ![r] = Append(@,
                 [template |-> reply_template(req[r].param, req[r].email,
                                              loc[r].message_id),
                  at |-> now, result |-> res])]
          /\ IF res.ok THEN Return(r, Ok("Message Processed"))
             ELSE Return(r, Err(res.error))
    /\ UNCHANGED <<clock_vars, log_vars, call_vars, req, loc, slack_calls>>

(* ----------------------- forward_email_to_slack ------------------------ *)

\* mailgun.verify_hmac(&email)?
Forward_verify_hmac(r) ==
    /\ pc[r] = "verify_hmac" /\ req[r].route = "forward"
    /\ LET v == verify_hmac(req[r].email)
       IN  IF v.ok THEN Goto(r, "send_message_a") ELSE Return(r, Err(v.error))
    /\ UNCHANGED <<clock_vars, log_vars, call_vars, req, loc, mail_calls, slack_calls>>

NoTs == "None"

\* the three backquotes that open and close a code block
Fence == "[3 backquotes]"

\* the first SlackMessage
first_message(channel_id, email) ==
    [channel |-> channel_id,
     text |-> <<"Email Received: " \o email.subject>>,
     thread_ts |-> NoTs,
     as_user |-> TRUE]

\* a slip: the body is forwarded as received
second_message_raw(channel_id, email, msg_response) ==
    [channel |-> channel_id,
     text |-> <<Fence>> \o email.body_plain
                 \o <<Fence, NL, "(from: ", email.sender, ")">>,
     thread_ts |-> msg_response.ts,
     as_user |-> TRUE]

\* the SlackMessage built in the and_then closure
second_message(channel_id, email, msg_response) ==
    [channel |-> channel_id,
     text |-> <<Fence>> \o unify_new_lines(email.body_plain)
                 \o <<Fence, NL, "(from: ", email.sender, ")">>,
     thread_ts |-> msg_response.ts,
     as_user |-> TRUE]

\* slack_client.send_message(&SlackMessage{..}): an Err skips the closure
Forward_send_message_a(r) ==
    /\ pc[r] = "send_message_a"
    /\ \E res \in SendMessageResults :
          /\ slack_calls' = [slack_calls EXCEPT ![r] = Append(@,
                 [message |-> first_message(req[r].param, req[r].email),
                  result |-> res])]
          /\ IF res.ok THEN Goto(r, "send_message_b")
             ELSE Return(r, Err(res.error))
    /\ UNCHANGED <<clock_vars, log_vars, call_vars, req, loc, mail_calls>>

\* a slip: the ? after the chain is missing
Forward_send_message_b_unchecked(r) ==
    /\ pc[r] = "send_message_b"
    /\ \E res \in SendMessageResults :
          /\ slack_calls' = [slack_calls EXCEPT ![r] = Append(@,
                 [message |-> second_message(req[r].param, req[r].email,
                                             slack_calls[r][1].result.value),
                  result |-> res])]
          /\ Return(r, Ok("Sent"))
    /\ UNCHANGED <<clock_vars, log_vars, call_vars, req, loc, mail_calls>>

\* .and_then(|msg_response| slack_client.send_message(..))?; Ok("Sent")
Forward_send_message_b(r) ==
    /\ pc[r] = "send_message_b"
    /\ \E res \in SendMessageResults :
          /\ slack_calls' = [slack_calls EXCEPT ![r] = Append(@,
                 [message |-> second_message(req[r].param, req[r].email,
                                             slack_calls[r][1].result.value),
                  result |-> res])]
          /\ IF res.ok THEN Return(r, Ok("Sent"))
             ELSE Return(r, Err(res.error))
    /\ UNCHANGED <<clock_vars, log_vars, call_vars, req, loc, mail_calls>>

(* ------------------------ the multipart handlers ----------------------- *)

\* send_no_reply_template_multipart and forward_email_to_slack_multipart:
\* let mailgun_received = multipart_to_mailgun(form_data)?; then the handler
\* of the route is called with mailgun_received
Multipart_to_mailgun(r) ==
    /\ pc[r] = "multipart_to_mailgun"
    /\ LET m == multipart_to_mailgun(form_data(req[r]))
           handler == IF req[r].route = "responder_multipart" THEN "responder"
                      ELSE "forward"
       IN  IF m.ok
           THEN /\ req' = [req EXCEPT ![r] =
                             [route |-> handler, param |-> req[r].param,
                              email |-> m.value, form |-> req[r].form]]
                /\ Goto(r, "verify_hmac")
           ELSE /\ UNCHANGED req
                /\ Return(r, Err(MissingFields))
    /\ UNCHANGED <<clock_vars, log_vars, call_vars, loc, mail_calls, slack_calls>>

(* -------------------- the whole service (Spec) ------------------------- *)

Next ==
    \/ Tick
    \/ \E r \in Req : Receive(r)
    \/ \E r \in Req : Multipart_to_mailgun(r)
    \/ \E r \in Req : Responder_verify_hmac(r)
    \/ \E r \in Req : Responder_get_message_id(r)
    \/ \E r \in Req : Responder_can_send(r)
    \/ \E r \in Req : ClearOld_orig_size(r)
    \/ \E r \in Req : ClearOld_retain(r)
    \/ \E r \in Req : ClearOld_new_size(r)
    \/ \E r \in Req : LogSend_insert(r)
    \/ \E r \in Req : Responder_send_email(r)
    \/ \E r \in Req : Forward_verify_hmac(r)
    \/ \E r \in Req : Forward_send_message_a(r)
    \/ \E r \in Req : Forward_send_message_b(r)

Spec == Init /\ [][Next]_vars


(* ------------- the log driven by one caller at a time (SpecLog) -------- *)

\* can_send(a), called directly
CallCanSend(a) ==
    /\ last_call' = [op |-> "can_send", addr |-> a, ret |-> can_send(a),
                     at |-> now, pre |-> last_response_date]
    /\ UNCHANGED <<clock_vars, log_vars, unified>>
    /\ UNCHANGED req_vars

\* log_send(a), called directly and run to completion
CallLogSend(a) ==
    /\ last_response_date' = log_send_on(last_response_date, a, now)
    /\ last_logged' = insert(last_logged, a, now)
    /\ last_call' = [op |-> "log_send", addr |-> a, ret |-> FALSE,
                     at |-> now, pre |-> last_response_date]
    /\ UNCHANGED <<clock_vars, unified>>
    /\ UNCHANGED req_vars

NextLog ==
    \/ Tick
    \/ \E a \in Addr : CallCanSend(a)
    \/ \E a \in Addr : CallLogSend(a)

SpecLog == Init /\ [][NextLog]_vars

(* ------- auto-reply requests handled one after another (SpecSeq) ------- *)

\* number of auto-reply requests handled in a row
NumSeqReq == 3
SeqReq == 1..NumSeqReq

InitSeq ==
    /\ now = 0
    /\ time_between_responses \in Thresholds
    /\ last_response_date = EmptyMap
    /\ last_call = [op |-> "none"]
    /\ last_logged = EmptyMap
    /\ pc = [r \in SeqReq |-> "idle"]
    /\ req = [r \in SeqReq |-> NoRequest]
    /\ loc = [r \in SeqReq |-> NoLocals]
    /\ mail_calls = [r \in SeqReq |-> <<>>]
    /\ slack_calls = [r \in SeqReq |-> <<>>]
    /\ result = [r \in SeqReq |-> NoResult]
    /\ response = [r \in SeqReq |-> NoResponse]
    /\ unified = <<>>

\* a request arrives when the one before it has been answered
ReceiveSeq(r) ==
    /\ pc[r] = "idle"
    /\ \A q \in SeqReq : q < r => pc[q] = "done"
    /\ \E q \in ResponderRequests : req' = [req EXCEPT ![r] = q]
    /\ Goto(r, "verify_hmac")
    /\ UNCHANGED <<clock_vars, log_vars, call_vars, loc, mail_calls, slack_calls>>

NextSeq ==
    \/ Tick
    \/ \E r \in SeqReq : ReceiveSeq(r)
    \/ \E r \in SeqReq : Responder_verify_hmac(r)
    \/ \E r \in SeqReq : Responder_get_message_id(r)
    \/ \E r \in SeqReq : Responder_can_send(r)
    \/ \E r \in SeqReq : ClearOld_orig_size(r)
    \/ \E r \in SeqReq : ClearOld_retain(r)
    \/ \E r \in SeqReq : ClearOld_new_size(r)
    \/ \E r \in SeqReq : LogSend_insert(r)
    \/ \E r \in SeqReq : Responder_send_email(r)

SpecSeq == InitSeq /\ [][NextSeq]_vars

(* ---------------- unify_new_lines on its own (SpecUnify) --------------- *)

\* the longest input string
MaxLen == 6

Alphabet == {NL, SP, "x", "y"}
Strings == UNION {[1..n -> Alphabet] : n \in 0..MaxLen}

InitUnify ==
    /\ now = 0
    /\ time_between_responses = 0
    /\ last_response_date = EmptyMap
    /\ last_call = [op |-> "none"]
    /\ last_logged = EmptyMap
    /\ pc = [r \in Req |-> "idle"]
    /\ req = [r \in Req |-> NoRequest]
    /\ loc = [r \in Req |-> NoLocals]
    /\ mail_calls = [r \in Req |-> <<>>]
    /\ slack_calls = [r \in Req |-> <<>>]
    /\ result = [r \in Req |-> NoResult]
    /\ response = [r \in Req |-> NoResponse]
    /\ unified \in {<<x>> : x \in Strings}

\* unify_new_lines applied to the latest string
ApplyUnify ==
    /\ Len(unified) < 3
    /\ unified' = Append(unified, unify_new_lines(unified[Len(unified)]))
    /\ UNCHANGED <<clock_vars, log_vars, last_call>>
    /\ UNCHANGED req_vars

NextUnify == ApplyUnify

SpecUnify == InitUnify /\ [][NextUnify]_vars


(* ============================== claims ================================= *)

OfRoute(r, route) == req[r].route = route
Sent(r) == Len(mail_calls[r]) > 0
SameFrom(q, r) == req[q].email.from = req[r].email.from
Abs(n) == IF n >= 0 THEN n ELSE 0 - n

Logged(a) == a \in DOMAIN last_logged
Elapsed(a) == num_minutes(now - last_logged[a])

\* C2 as stated, for every threshold: can_send(a) is true before any
\* log_send(a), false immediately after it and while inside the window, and
\* true again once more than the threshold has elapsed.
C2_AsStated ==
    \A a \in Addr :
        /\ ~Logged(a) => can_send(a)
        /\ (Logged(a) /\ (last_logged[a] = now \/ Elapsed(a) <= time_between_responses))
               => ~can_send(a)
        /\ (Logged(a) /\ Elapsed(a) > time_between_responses) => can_send(a)

\* C2, amended: the same for every threshold that is not negative (elapsed
\* time counted in whole minutes).
C2_NonNegativeThreshold ==
    time_between_responses >= 0 => C2_AsStated

\* can_send(a) answered true again, a full window after log_send(a)
C2_Witness ==
    /\ time_between_responses >= 0
    /\ last_call.op = "can_send" /\ last_call.ret /\ last_call.at = now
    /\ Logged(last_call.addr)
    /\ Elapsed(last_call.addr) > time_between_responses

StaleAt(map, b, t) == num_minutes(t - map[b]) > time_between_responses

Done(r) == pc[r] = "done"
Failed(r) == Done(r) /\ ~result[r].ok
Replied(r, text) ==
    /\ Done(r) /\ result[r].ok /\ result[r].value = text
    /\ response[r].kind = "handler reply" /\ response[r].body = text

GoodSignature(r) ==
    req[r].email.signature = <<"hmac-sha256", "key", req[r].email.timestamp,
                               req[r].email.token>>
MessageIdOf(r) ==
    {req[r].email.message_headers[i][2] :
        i \in {j \in 1..Len(req[r].email.message_headers) :
                  req[r].email.message_headers[j][1] = "Message-Id"}}

\* C4: a returned auto-reply request with a good signature and a message id
\* has, when can_send was true, made exactly one send_email call, to the From
\* address, with subject "Re: " + subject and In-Reply-To = References = the
\* message id; when can_send was false it has made no call, has not touched
\* the log and has answered "Message Processed".  The step that finds
\* can_send false leaves the log as it is and ends the request.
C4_Returned ==
    \A r \in Req :
        (OfRoute(r, "responder") /\ Done(r) /\ GoodSignature(r) /\ MessageIdOf(r) # {})
        => IF loc[r].can
           THEN /\ Len(mail_calls[r]) = 1
                /\ mail_calls[r][1].template.recipient = req[r].email.from
                /\ req[r].email.subject = "Hello"
                       => mail_calls[r][1].template.subject = "Re: Hello"
                /\ mail_calls[r][1].template.in_reply_to \in MessageIdOf(r)
                /\ mail_calls[r][1].template.references
                       = mail_calls[r][1].template.in_reply_to
           ELSE /\ Len(mail_calls[r]) = 0
                /\ loc[r].logged_at = Unset
                /\ Replied(r, "Message Processed")

C4_SuppressedStep ==
    \A r \in Req :
        (pc[r] = "can_send" /\ pc'[r] # "can_send" /\ ~loc'[r].can)
        => /\ last_response_date' = last_response_date
           /\ pc'[r] = "done"

\* C4: the auto-reply flow dispatches exactly one reply, to the From address
\* and threaded to the message id, when can_send is true, and none, with the
\* log untouched and the answer "Message Processed", when it is false.
C4_AutoReply == []C4_Returned /\ [][C4_SuppressedStep]_vars

\* a first request answered with one reply, a second identical one suppressed
C4_Witness ==
    \E q \in Req : \E r \in Req \ {q} :
        /\ OfRoute(q, "responder") /\ req[r] = req[q]
        /\ Done(q) /\ loc[q].can /\ Len(mail_calls[q]) = 1
        /\ mail_calls[q][1].template.subject = "Re: Hello"
        /\ Done(r) /\ ~loc[r].can /\ Len(mail_calls[r]) = 0
        /\ GoodSignature(r) /\ MessageIdOf(r) # {}
        /\ Replied(r, "Message Processed")

\* the handler of r has ended: it returned, or it panicked in clear_old
Ended(r) == pc[r] \in {"done", "panicked"}

\* C4 as stated, for every request whose handler has ended: when can_send
\* was true exactly one reply has been dispatched, when it was false none.
C4_AsStated ==
    \A r \in Req :
        (OfRoute(r, "responder") /\ Ended(r) /\ GoodSignature(r) /\ MessageIdOf(r) # {})
        => IF loc[r].can
           THEN Len(mail_calls[r]) = 1
           ELSE Len(mail_calls[r]) = 0 /\ Replied(r, "Message Processed")

\* what the two bodies look like once normalized
NormalizedBody(body) ==
    IF body = <<"Line1", NL, NL, NL, NL, "Line2">>
    THEN <<"Line1", NL, NL, "Line2">>
    ELSE <<"Hi", NL, NL, "Bye", NL>>

\* C5: the second chat message is sent only after the first send_message
\* returned success; it goes to the first one's channel, is threaded to the ts
\* the first call returned, the first has no thread_ts, and its text is the
\* normalized body in a code block followed by the sender address.
C5_SecondMessage ==
    \A r \in Req :
        /\ (pc[r] = "send_message_b" \/ Len(slack_calls[r]) >= 2)
               => (Len(slack_calls[r]) >= 1 /\ slack_calls[r][1].result.ok)
        /\ Len(slack_calls[r]) >= 1
               => /\ slack_calls[r][1].message.thread_ts = "None"
                  /\ slack_calls[r][1].message.channel = req[r].param
        /\ Len(slack_calls[r]) >= 2
               => /\ slack_calls[r][2].message.channel
                         = slack_calls[r][1].message.channel
                  /\ slack_calls[r][2].message.thread_ts
                         = slack_calls[r][1].result.value.ts
                  /\ slack_calls[r][2].message.text
                         = <<Fence>> \o NormalizedBody(req[r].email.body_plain)
                               \o <<Fence, NL, "(from: ", req[r].email.sender, ")">>

\* the body "Line1\n\n\n\nLine2" forwarded as "Line1\n\nLine2"
C5_Witness ==
    \E r \in Req :
        /\ Len(slack_calls[r]) = 2
        /\ req[r].email.body_plain = <<"Line1", NL, NL, NL, NL, "Line2">>
        /\ slack_calls[r][2].message.text
               = <<Fence, "Line1", NL, NL, "Line2", Fence, NL, "(from: ",
                   req[r].email.sender, ")">>

\* C6: when the first send_message fails the second is never attempted and
\* the request fails with the first's error; when the second fails the
\* request fails with the second's error; "Sent" is answered exactly when the
\* signature and both calls were good.
C6_ForwardFailure ==
    \A r \in Req :
        (OfRoute(r, "forward") /\ Done(r))
        => /\ (Len(slack_calls[r]) >= 1 /\ ~slack_calls[r][1].result.ok)
                  => /\ Len(slack_calls[r]) = 1
                     /\ Failed(r) /\ result[r].error = slack_calls[r][1].result.error
           /\ (Len(slack_calls[r]) = 2 /\ ~slack_calls[r][2].result.ok)
                  => /\ Failed(r) /\ result[r].error = slack_calls[r][2].result.error
           /\ Replied(r, "Sent")
                  <=> /\ GoodSignature(r)
                      /\ Len(slack_calls[r]) = 2
                      /\ slack_calls[r][1].result.ok
                      /\ slack_calls[r][2].result.ok
           /\ Replied(r, "Sent") \/ Failed(r)

\* a forward whose first message went out and whose second failed
C6_Witness ==
    \E r \in Req :
        /\ OfRoute(r, "forward") /\ Done(r)
        /\ Len(slack_calls[r]) = 2
        /\ slack_calls[r][1].result.ok /\ ~slack_calls[r][2].result.ok
        /\ Failed(r) /\ result[r].error.text = "ratelimited"

\* C7: in both flows a request whose signature verify_hmac rejects does
\* nothing but fail with that error: no message id is extracted, can_send and
\* log_send are not called, no email and no chat message is sent.
C7_FailFast ==
    \A r \in Req :
        (req[r].route \in {"responder", "forward"} /\ ~GoodSignature(r))
        => /\ pc[r] \in {"verify_hmac", "done"}
           /\ loc[r] = NoLocals
           /\ mail_calls[r] = <<>> /\ slack_calls[r] = <<>>
           /\ Done(r) => /\ Failed(r)
                         /\ result[r].error.type = "MailgunError"
                         /\ result[r].error.variant = "HmacError"

\* a rejected auto-reply request and a rejected forward request
C7_Witness ==
    \E q \in Req : \E r \in Req :
        /\ OfRoute(q, "responder") /\ OfRoute(r, "forward")
        /\ ~GoodSignature(q) /\ ~GoodSignature(r)
        /\ Failed(q) /\ Failed(r)
        /\ last_response_date = EmptyMap

IsBlankLine(l) == \A i \in 1..Len(l) : l[i] \in {SP, TAB}
NonBlank(l) == ~IsBlankLine(l)

\* the line without the whitespace around it
Stripped(l) ==
    IF IsBlankLine(l) THEN <<>>
    ELSE LET ix == {i \in 1..Len(l) : l[i] \notin {SP, TAB}}
             lo == CHOOSE i \in ix : \A j \in ix : i <= j
             hi == CHOOSE i \in ix : \A j \in ix : j <= i
         IN  [k \in 1..(hi - lo + 1) |-> l[lo + k - 1]]

RECURSIVE StrippedNonBlank(_)
StrippedNonBlank(lines) ==
    IF lines = <<>> THEN <<>>
    ELSE (IF NonBlank(Head(lines)) THEN <<Stripped(Head(lines))>> ELSE <<>>)
             \o StrippedNonBlank(Tail(lines))

\* the lines of a string: the pieces between its newlines
LinesOf(s) ==
    LET nl == {i \in 1..Len(s) : s[i] = NL}
        cuts == {0} \cup nl \cup {Len(s) + 1}
        starts == cuts \ {Len(s) + 1}
        NextCut(c) == CHOOSE d \in cuts : d > c /\ \A e \in cuts : e > c => d <= e
        NthStart[k \in 1..Cardinality(starts)] ==
            CHOOSE c \in starts : Cardinality({d \in starts : d < c}) = k - 1
    IN  [k \in 1..Cardinality(starts) |->
            [i \in 1..(NextCut(NthStart[k]) - NthStart[k] - 1) |-> s[NthStart[k] + i]]]

\* the number of maximal runs of blank lines
BlankRuns(lines) ==
    Cardinality({i \in 1..Len(lines) :
        IsBlankLine(lines[i]) /\ (i = 1 \/ NonBlank(lines[i - 1]))})

\* C8: unify_new_lines applied twice gives what it gives applied once.
C8_Idempotent ==
    Len(unified) = 3 => unified[3] = unified[2]

\* a string with blank lines to collapse and whitespace to trim, unified twice
C8_Witness ==
    /\ Len(unified) = 3
    /\ unified[1] = <<SP, NL, NL, "x", SP>>
    /\ unified[2] = <<NL, "x">>

\* C9: the output holds no two consecutive blank lines, one blank line for
\* every run of blank input lines, and the input's non-blank lines, trimmed,
\* in their order.
C9_Collapsed ==
    Len(unified) >= 2 =>
        LET in == LinesOf(unified[1])
            out == LinesOf(unified[2])
        IN  /\ \A i \in 1..(Len(out) - 1) :
                  ~(IsBlankLine(out[i]) /\ IsBlankLine(out[i + 1]))
            /\ \A i \in 1..Len(out) : IsBlankLine(out[i]) => out[i] = <<>>
            /\ BlankRuns(out) = BlankRuns(in)
            /\ StrippedNonBlank(out) = StrippedNonBlank(in)
            /\ StrippedNonBlank(out) = SelectSeq(out, NonBlank)

\* three blank lines between two lines collapsed to one
C9_Witness ==
    /\ Len(unified) >= 2
    /\ unified[1] = <<"x", NL, NL, SP, NL, "y">>
    /\ unified[2] = <<"x", NL, NL, "y">>

\* C10: recover_error answers an HmacError and a JsonError with 400 and a
\* MailgunError with 500, the JSON body carrying that code and the error's
\* text, and hands back every rejection that has no MailgunError cause.
C10_ErrorMapping ==
    \A r \in Req :
        Failed(r) =>
            LET e == result[r].error
                Json(code) == [kind |-> "reply", status |-> code,
                               json |-> [code |-> code, message |-> e.text]]
            IN  /\ (e.type = "MailgunError" /\ e.variant = "HmacError")
                       => response[r] = Json(400)
                /\ (e.type = "MailgunError" /\ e.variant = "JsonError")
                       => response[r] = Json(400)
                /\ (e.type = "MailgunError" /\ e.variant = "MailgunError")
                       => response[r] = Json(500)
                /\ e.type # "MailgunError"
                       => response[r] = [kind |-> "rejection", rejection |-> e]

\* a malformed provider response answered 400 and a chat failure passed on
C10_Witness ==
    \E q \in Req : \E r \in Req :
        /\ Failed(q) /\ result[q].error.variant = "JsonError"
        /\ response[q].kind = "reply" /\ response[q].status = 400
        /\ Failed(r) /\ result[r].error.type # "MailgunError"
        /\ response[r].kind = "rejection" /\ response[r].rejection = result[r].error

IsMultipart(r) == req[r].route # "none" /\ "form" \in DOMAIN req[r]
Parsed(r) == IsMultipart(r) /\ req[r].route \in {"responder", "forward"}
FormOf(r) ==
    IF req[r].route \in {"responder_multipart", "responder"}
    THEN ResponderForms[req[r].form] ELSE ForwardForms[req[r].form]

PartName(f) ==
    CASE f = "body_plain" -> "body-plain"
      [] f = "message_headers" -> "message-headers"
      [] OTHER -> f

Last(S) == CHOOSE i \in S : \A j \in S : j <= i
IsNumber(s) ==
    LET ds == IF s # <<>> /\ s[1] \in {"+", "-"} THEN Tail(s) ELSE s
    IN  ds # <<>> /\ \A i \in 1..Len(ds) : ds[i] \in Digits

\* the parts that decide the field f: the readable ones for the timestamp,
\* every part of that name that arrived for the other fields
Deciding(form, f) ==
    {i \in 1..Len(form) :
        /\ form[i].ok /\ form[i].name = PartName(f)
        /\ f = "timestamp" => form[i].utf8}

\* the field has a captured value: its last deciding part is usable
Captured(form, f) ==
    /\ Deciding(form, f) # {}
    /\ form[Last(Deciding(form, f))].utf8
    /\ f = "timestamp" => IsNumber(form[Last(Deciding(form, f))].text)

AllCaptured(form) == \A i \in 1..Len(FieldSeq) : Captured(form, FieldSeq[i])

\* the forms in which every field has a captured value
CompleteResponderForms ==
    {k \in 1..Len(ResponderForms) : AllCaptured(ResponderForms[k])}
CompleteForwardForms ==
    {k \in 1..Len(ForwardForms) : AllCaptured(ForwardForms[k])}
Complete(r) ==
    IF req[r].route \in {"responder_multipart", "responder"}
    THEN req[r].form \in CompleteResponderForms
    ELSE req[r].form \in CompleteForwardForms

\* C11: a multipart request goes on to its handler exactly when each of the
\* eight fields has a captured value, and then with the record of the last
\* values; otherwise it ends, without a panic, in the MissingFields rejection
\* that recover_error hands back, before the signature is verified, the log
\* is read or written and any email or chat message is sent.
C11_MissingFields ==
    \A r \in Req :
        IsMultipart(r) =>
            /\ Parsed(r) <=> (Complete(r) /\ pc[r] # "multipart_to_mailgun")
            /\ Parsed(r) =>
                  \A i \in 1..Len(FieldSeq) :
                      LET f == FieldSeq[i]
                          text == FormOf(r)[Last(Deciding(FormOf(r), f))].text
                      IN  IF f = "timestamp"
                          THEN text = <<"1">> => req[r].email[f] = 1
                          ELSE req[r].email[f] = text
            /\ ~Complete(r) =>
                  /\ pc[r] \in {"multipart_to_mailgun", "done"}
                  /\ loc[r] = NoLocals
                  /\ mail_calls[r] = <<>> /\ slack_calls[r] = <<>>
                  /\ Done(r) =>
                        /\ Failed(r) /\ result[r].error = MissingFields
                        /\ response[r] = [kind |-> "rejection",
                                          rejection |-> MissingFields]

\* a form whose token arrives twice, unreadable the second time, rejected
\* with the log empty, and a complete form among other parts forwarded
C11_Witness ==
    \E q \in Req : \E r \in Req :
        /\ IsMultipart(q) /\ ~Parsed(q) /\ Failed(q)
        /\ Cardinality({i \in 1..Len(FormOf(q)) :
                           FormOf(q)[i].ok /\ FormOf(q)[i].name = "token"}) = 2
        /\ result[q].error.variant = "MissingFields"
        /\ last_response_date = EmptyMap
        /\ Parsed(r) /\ Len(FormOf(r)) > Len(FieldSeq) /\ Replied(r, "Sent")

FailedCalls(calls) == {i \in 1..Len(calls) : ~calls[i].result.ok}

\* C12: a request makes at most one send_email call (auto-reply) or at most
\* two send_message calls (forward); a call that failed is the last call the
\* request makes, and the request has ended in failure with that call's error.
C12_NoRetries ==
    \A r \in Req :
        /\ Len(mail_calls[r]) <= 1 /\ Len(slack_calls[r]) <= 2
        /\ mail_calls[r] # <<>> => (OfRoute(r, "responder") /\ slack_calls[r] = <<>>)
        /\ slack_calls[r] # <<>> => (OfRoute(r, "forward") /\ mail_calls[r] = <<>>)
        /\ \A i \in FailedCalls(mail_calls[r]) :
              /\ i = Len(mail_calls[r])
              /\ Failed(r) /\ result[r].error = mail_calls[r][i].result.error
        /\ \A i \in FailedCalls(slack_calls[r]) :
              /\ i = Len(slack_calls[r])
              /\ Failed(r) /\ result[r].error = slack_calls[r][i].result.error

\* an auto-reply whose send_email failed and a forward whose first
\* send_message failed, each ended after that one call
C12_Witness ==
    \E q \in Req : \E r \in Req :
        /\ OfRoute(q, "responder") /\ Failed(q)
        /\ Len(mail_calls[q]) = 1 /\ FailedCalls(mail_calls[q]) = {1}
        /\ OfRoute(r, "forward") /\ Failed(r)
        /\ Len(slack_calls[r]) = 1 /\ FailedCalls(slack_calls[r]) = {1}

\* C13: can_send, called for an address that has an entry, answers true
\* exactly when threshold + 1 full minutes or more have passed since the
\* entry's timestamp; at exactly threshold minutes, and at any time short of
\* threshold + 1 full minutes, it answers false.
C13_StrictlyGreater ==
    (last_call.op = "can_send" /\ last_call.addr \in DOMAIN last_call.pre) =>
        LET d == last_call.at - last_call.pre[last_call.addr]
        IN  /\ last_call.ret <=> d >= (time_between_responses + 1) * TicksPerMinute
            /\ d = time_between_responses * TicksPerMinute => ~last_call.ret
            /\ d < (time_between_responses + 1) * TicksPerMinute => ~last_call.ret

\* can_send answered false one tick short of threshold + 1 minutes
C13_Witness ==
    /\ last_call.op = "can_send" /\ last_call.addr \in DOMAIN last_call.pre
    /\ time_between_responses >= 1
    /\ last_call.at - last_call.pre[last_call.addr]
           = (time_between_responses + 1) * TicksPerMinute - 1
    /\ ~last_call.ret

Reached(r) == loc[r].logged_at # Unset
Checked(r) == pc[r] \notin {"idle", "verify_hmac", "get_message_id", "can_send"}
                 /\ GoodSignature(r) /\ MessageIdOf(r) # {}

\* C14: of auto-reply requests for one From address handled one after
\* another, a later request that has passed the can_send check either has its
\* log_send timestamp more than time_between_responses whole minutes after
\* the log_send timestamp of every earlier one that reached send_email, or it
\* is suppressed: it has made no call, has not written the log and has
\* answered "Message Processed".
C14_Sequential ==
    \A q \in SeqReq : \A r \in SeqReq :
        (q < r /\ OfRoute(q, "responder") /\ OfRoute(r, "responder")
            /\ SameFrom(q, r) /\ Reached(q) /\ Checked(r))
        => IF loc[r].can
           THEN Reached(r) =>
                    num_minutes(loc[r].logged_at - loc[q].logged_at)
                        > time_between_responses
           ELSE /\ mail_calls[r] = <<>> /\ ~Reached(r)
                /\ Replied(r, "Message Processed")

\* two replies to one address a full window apart and, in between, a request
\* of that address suppressed
C14_Witness ==
    \E q \in SeqReq : \E m \in SeqReq : \E r \in SeqReq :
        /\ q < m /\ m < r /\ time_between_responses >= 0
        /\ OfRoute(q, "responder") /\ OfRoute(m, "responder")
        /\ OfRoute(r, "responder")
        /\ SameFrom(q, m) /\ SameFrom(m, r)
        /\ Sent(q) /\ Sent(r)
        /\ Checked(m) /\ ~loc[m].can /\ Replied(m, "Message Processed")
        /\ num_minutes(loc[r].logged_at - loc[q].logged_at) > time_between_responses

\* log_send of request r has completed
LogSendDone(r) == pc[r] \in {"send_email", "done"} /\ loc[r].logged_at # Unset

C15_Kept ==
    \A r \in Req :
        (LogSendDone(r)
            /\ (now - loc[r].logged_at) < (time_between_responses + 1) * TicksPerMinute)
        => /\ req[r].email.from \in DOMAIN last_response_date
           /\ last_response_date[req[r].email.from] >= loc[r].logged_at
           /\ ~can_send(req[r].email.from)

C15_SweepStep ==
    \A a \in DOMAIN last_response_date :
        /\ a \notin DOMAIN last_response_date'
               => (now - last_response_date[a])
                      >= (time_between_responses + 1) * TicksPerMinute
        /\ a \in DOMAIN last_response_date'
               => \/ last_response_date'[a] = last_response_date[a]
                  \/ \E r \in Req : /\ pc[r] = "insert" /\ pc'[r] = "send_email"
                                    /\ req[r].email.from = a
                                    /\ last_response_date'[a] = now

NoMessageId(r) ==
    OfRoute(r, "responder") /\ GoodSignature(r) /\ MessageIdOf(r) = {}

C16_Stopped ==
    \A r \in Req :
        NoMessageId(r)
        => /\ pc[r] \in {"verify_hmac", "get_message_id", "done"}
           /\ loc[r] = NoLocals
           /\ mail_calls[r] = <<>>
           /\ Done(r) => /\ Failed(r)
                         /\ result[r] = get_message_id(req[r].email)

C16_Step ==
    \A r \in Req :
        (NoMessageId(r) /\ pc'[r] # pc[r])
        => /\ last_response_date' = last_response_date
           /\ mail_calls' = mail_calls
           /\ pc[r] = "get_message_id" => pc'[r] = "done"

\* C16: an auto-reply request with a good signature and no extractable
\* message id fails with the missing-message-id error at get_message_id:
\* can_send and log_send are not called, none of its steps changes the log,
\* and no email is sent.
C16_NoMessageId == []C16_Stopped /\ [][C16_Step]_vars

\* a request without Message-Id failed while the entry another request has
\* logged for its address stays as it was
C16_Witness ==
    \E q \in Req : \E r \in Req \ {q} :
        /\ NoMessageId(r) /\ Failed(r)
        /\ result[r].error.text = "no message id found"
        /\ OfRoute(q, "responder") /\ SameFrom(q, r) /\ LogSendDone(q)
        /\ last_response_date[req[r].email.from] = loc[q].logged_at
        /\ loc[q].logged_at < now

\* the send_email call of request r failed
SendFailed(r) ==
    /\ OfRoute(r, "responder") /\ Failed(r)
    /\ Len(mail_calls[r]) = 1 /\ ~mail_calls[r][1].result.ok
InWindow(r) == num_minutes(now - loc[r].logged_at) <= time_between_responses

C17_Logged ==
    \A r \in Req :
        /\ (pc[r] = "send_email" \/ mail_calls[r] # <<>>) => loc[r].logged_at # Unset
        /\ mail_calls[r] # <<>> => loc[r].logged_at <= mail_calls[r][1].at
        /\ SendFailed(r) => result[r].error = mail_calls[r][1].result.error
        /\ (SendFailed(r) /\ InWindow(r))
               => /\ req[r].email.from \in DOMAIN last_response_date
                  /\ last_response_date[req[r].email.from] >= loc[r].logged_at
                  /\ ~can_send(req[r].email.from)

C17_Step ==
    \A r \in Req :
        /\ (pc[r] = "send_email" /\ pc'[r] # "send_email")
               => last_response_date' = last_response_date
        /\ (pc[r] = "can_send" /\ pc'[r] # "can_send"
               /\ \E q \in Req \ {r} : SendFailed(q) /\ SameFrom(q, r) /\ InWindow(q))
               => /\ ~loc'[r].can /\ pc'[r] = "done"
                  /\ mail_calls'[r] = <<>>
                  /\ result'[r] = Ok("Message Processed")

C18_AsStated ==
    \A r \in Req :
        /\ pc[r] = "new_size" => len(last_response_date) <= loc[r].orig_size
        /\ pc[r] # "panicked"

\* C19: the can_send step of a request leaves the map as it is, also when the
\* entry it finds is stale; the map changes only in a step of some request's
\* log_send: an entry goes in the sweep of clear_old, and is written by the
\* insert.
C19_ReadOnly ==
    [][/\ \A r \in Req :
              (pc[r] = "can_send" /\ pc'[r] # "can_send")
              => last_response_date' = last_response_date
       /\ \A a \in DOMAIN last_response_date :
              a \notin DOMAIN last_response_date'
              => \E r \in Req : /\ pc[r] = "retain" /\ loc'[r].cursor # loc[r].cursor
                                /\ AddrSeq[loc[r].cursor] = a
       /\ \A a \in DOMAIN last_response_date' :
              (a \notin DOMAIN last_response_date
                  \/ last_response_date'[a] # last_response_date[a])
              => \E r \in Req : /\ pc[r] = "insert" /\ pc'[r] = "send_email"
                                /\ req[r].email.from = a]_vars

\* can_send has answered true on a stale entry, which is still in the map
C19_Witness ==
    \E r \in Req :
        /\ pc[r] = "clear_old" /\ loc[r].can
        /\ time_between_responses >= 0
        /\ req[r].email.from \in DOMAIN last_response_date
        /\ is_too_old(last_response_date[req[r].email.from], now)

====
